---- MODULE Spec2Model ----
(***************************************************************************)
(* The diagram tool of wilmandj/flowstream: per diagram type a node list   *)
(* and a connection list kept in the Streamlit session, mutated by button  *)
(* handlers of diagram_page_logic, and JSON snapshots in the working       *)
(* directory.  One action is one run of the page script with one button    *)
(* pressed.  Python list positions are 0-based; sequences here are 1-based,*)
(* so the button numbered i in the code is position i + 1 here.            *)
(***************************************************************************)
EXTENDS Integers, Sequences, FiniteSets, TLC

VARIABLES version, page, nodes, connections, files, pc, sel, last, snap, steps, dot

vars == <<version, page, nodes, connections, files, pc, sel, last, snap, steps, dot>>

(* ------------------------------ bounds --------------------------------- *)

\* longest node list the Add Node input is explored on
MaxNodes == 2
\* longest connection list the Add Connection input is explored on
MaxConnections == 2
\* number of script runs (button presses and outside file changes) explored
MaxSteps == 6

(* ------------------------- strings as characters ----------------------- *)

\* the versions of the program
Versions == {"flowstream_v2", "flowstream"}

\* the diagram types of the pages explored (the code has five pages)
DiagramTypes == {"dfd", "erd"}
\* the diagram types of the five pages of main()
AllDiagramTypes == {"dfd", "bpmn", "uml", "erd", "process_flow"}

\* the characters of a diagram type, as the f-strings of the file names use them
TypeChars(t) ==
    CASE t = "dfd" -> <<"d", "f", "d">>
      [] t = "bpmn" -> <<"b", "p", "m", "n">>
      [] t = "uml" -> <<"u", "m", "l">>
      [] t = "erd" -> <<"e", "r", "d">>
      [] t = "process_flow" -> <<"p", "r", "o", "c", "e", "s", "s", "_", "f", "l", "o", "w">>

\* node_types argument of each page function
node_types(t) ==
    CASE t = "dfd" -> {"Process", "External Entity", "Data Store"}
      [] t = "bpmn" -> {"Event", "Gateway", "Process"}
      [] t = "uml" -> {"Component", "Node", "Class"}
      [] t = "erd" -> {"Entity", "Attribute"}
      [] t = "process_flow" -> {"Process", "Decision", "Start/End"}

DataInfix == <<"_", "d", "a", "t", "a", "_">>
FlowsInfix == <<"_", "f", "l", "o", "w", "s", "_">>
JsonSuffix == <<".", "j", "s", "o", "n">>

\* str.startswith
StartsWith(s, p) == Len(s) >= Len(p) /\ SubSeq(s, 1, Len(p)) = p
\* str.endswith
EndsWith(s, p) == Len(s) >= Len(p) /\ SubSeq(s, Len(s) - Len(p) + 1, Len(s)) = p

\* f"{diagram_type}_data_{filename}.json" (v2), f"{diagram_type}_flows_{filename}.json"
DataPrefixNoType(t) == DataInfix
DataPrefix(t) == TypeChars(t) \o DataInfix
FlowsPrefix(t) == TypeChars(t) \o FlowsInfix
DataPath(t, filename) == DataPrefix(t) \o filename \o JsonSuffix
FlowsPath(t, filename) == FlowsPrefix(t) \o filename \o JsonSuffix

(* ------------------------------ JSON text ------------------------------ *)
\* A JSON text is the sequence of its tokens; every token is a pair of strings.

Punct(c) == <<"punct", c>>
Str(s) == <<"string", s>>
Bool(b) == <<"literal", IF b THEN "true" ELSE "false">>

RECURSIVE DumpList(_, _)
\* json.dump of a list whose elements are already dumped
DumpList(items, i) ==
    IF i > Len(items) THEN <<>>
    ELSE (IF i > 1 THEN <<Punct(",")>> ELSE <<>>) \o items[i] \o DumpList(items, i + 1)

DumpArray(items) == <<Punct("[")>> \o DumpList(items, 1) \o <<Punct("]")>>

\* json.dump of a node dict {"name": .., "type": ..}
DumpNode(n) ==
    <<Punct("{"), Str("name"), Punct(":"), Str(n.name), Punct(","),
      Str("type"), Punct(":"), Str(n.type), Punct("}")>>

\* json.dump of a connection dict, keys in insertion order
DumpConnection(c) ==
    <<Punct("{"), Str("source"), Punct(":"), Str(c.source), Punct(","),
      Str("destination"), Punct(":"), Str(c.destination), Punct(","),
      Str("label"), Punct(":"), Str(c.label), Punct(","),
      Str("bidirectional"), Punct(":"), Bool(c.bidirectional), Punct("}")>>

DumpNodes(ns) == DumpArray([i \in 1..Len(ns) |-> DumpNode(ns[i])])
DumpConnections(cs) == DumpArray([i \in 1..Len(cs) |-> DumpConnection(cs[i])])

\* json.dump({"nodes": nodes, "connections": connections}, f, indent=4)
DumpData(ns, cs) ==
    <<Punct("{"), Str("nodes"), Punct(":")>> \o DumpNodes(ns) \o
    <<Punct(","), Str("connections"), Punct(":")>> \o DumpConnections(cs) \o
    <<Punct("}")>>

\* json.dump(flows, f, indent=4) of flowstream.py
DumpFlows(cs) == DumpConnections(cs)

ParseFail == [ok |-> FALSE, val |-> <<>>, next |-> 0]

RECURSIVE ParseValue(_, _), ParseElements(_, _, _), ParseMembers(_, _, _)
\* the JSON decoder: the value starting at token p, and the position after it
ParseValue(text, p) ==
    IF p > Len(text) THEN ParseFail
    ELSE LET tok == text[p] IN
         CASE tok[1] = "string" -> [ok |-> TRUE, val |-> tok[2], next |-> p + 1]
           [] tok[1] = "literal" -> [ok |-> TRUE, val |-> (tok[2] = "true"), next |-> p + 1]
           [] tok = Punct("[") ->
                IF p + 1 <= Len(text) /\ text[p + 1] = Punct("]")
                THEN [ok |-> TRUE, val |-> <<>>, next |-> p + 2]
                ELSE ParseElements(text, p + 1, <<>>)
           [] tok = Punct("{") ->
                IF p + 1 <= Len(text) /\ text[p + 1] = Punct("}")
                THEN [ok |-> TRUE, val |-> <<>>, next |-> p + 2]
                ELSE ParseMembers(text, p + 1, <<>>)
           [] OTHER -> ParseFail

\* the elements of an array after "[" or ",", acc the elements read so far
ParseElements(text, p, acc) ==
    LET v == ParseValue(text, p) IN
    IF ~v.ok \/ v.next > Len(text) THEN ParseFail
    ELSE IF text[v.next] = Punct("]")
         THEN [ok |-> TRUE, val |-> Append(acc, v.val), next |-> v.next + 1]
    ELSE IF text[v.next] = Punct(",")
         THEN ParseElements(text, v.next + 1, Append(acc, v.val))
    ELSE ParseFail

\* the members of an object after "{" or ",", acc the dict read so far
ParseMembers(text, p, acc) ==
    IF p + 1 > Len(text) \/ text[p][1] # "string" \/ text[p + 1] # Punct(":")
    THEN ParseFail
    ELSE LET v == ParseValue(text, p + 2)
             d == [k \in (DOMAIN acc) \cup {text[p][2]} |->
                      IF k = text[p][2] THEN v.val ELSE acc[k]]
         IN IF ~v.ok \/ v.next > Len(text) THEN ParseFail
            ELSE IF text[v.next] = Punct("}")
                 THEN [ok |-> TRUE, val |-> d, next |-> v.next + 1]
            ELSE IF text[v.next] = Punct(",")
                 THEN ParseMembers(text, v.next + 1, d)
            ELSE ParseFail

\* json.load(f): the whole text is one value, else JSONDecodeError
JsonLoad(text) ==
    LET r == ParseValue(text, 1) IN
    IF r.ok /\ r.next = Len(text) + 1 THEN [ok |-> TRUE, val |-> r.val]
    ELSE [ok |-> FALSE, val |-> <<>>]

\* dict.get(key, [])
DictGet(d, key) == IF key \in DOMAIN d THEN d[key] ELSE <<>>

(* ------------------------------- inputs -------------------------------- *)

\* texts typed into "Node Name:" (the empty string is the untouched field)
NodeNames == {"Customer", "OrderService"}
\* the choices of "Node Type:" explored on each page, a part of node_types
NodeTypeChoices(t) ==
    node_types(t) \cap {"External Entity", "Process", "Entity"}
\* texts typed into "Label:"
Labels == {"Places Order"}
\* texts typed into "Save As:", as characters
SaveNames == {<<"a">>}
\* what a file changed from outside the program may hold: the beginning of a
\* dump cut short
OutsideTexts == {SubSeq(DumpData(<<>>, <<>>), 1, 4)}

(* -------------------------------- state -------------------------------- *)

NoSelection == [dtype |-> "", filename |-> <<>>]
NoSnapshot == [saved |-> FALSE, nodes |-> <<>>, connections |-> <<>>]
Shown(op, t, msg, i) == [op |-> op, dtype |-> t, msg |-> msg, index |-> i]
\* the drawing of a run that drew nothing
NoDot == <<>>

\* version: the program that runs; nodes, connections: session_state
\* f'{t}_nodes' and f'{t}_connections' (f'{t}_flows' before v2); files: the
\* working directory, path -> text; pc, sel: a Load run between the listing of
\* the snapshots and load_data; last: the button handled last and the message
\* it showed; snap: history of the last state Save wrote under each name, kept
\* while nothing outside the program touches that file; steps: runs so far;
\* dot: the drawing instructions the current run produced.
Init ==
    /\ version \in Versions
    /\ page = "Introduction"
    /\ nodes = [t \in DiagramTypes |-> <<>>]
    /\ connections = [t \in DiagramTypes |-> <<>>]
    /\ files = <<>>
    /\ pc = "idle"
    /\ sel = NoSelection
    /\ last = Shown("start", "", "", 0)
    /\ snap = [t \in DiagramTypes |-> [n \in SaveNames |-> NoSnapshot]]
    /\ steps = 0
    /\ dot = NoDot

Tick == steps < MaxSteps /\ steps' = steps + 1
\* a run of the page script: what the run before displayed is gone
Run == Tick /\ dot' = NoDot

\* the sidebar radio of main(): another page is selected
Navigate(p) ==
    /\ pc = "idle" /\ page # p /\ Run
    /\ page' = p
    /\ last' = Shown("navigate", IF p \in DiagramTypes THEN p ELSE "", "", 0)
    /\ UNCHANGED <<version, nodes, connections, files, pc, sel, snap>>

(* --------------------------- nodes and connections --------------------- *)

\* "Add Node" button
AddNodeUnchecked(t, node_name, node_type) ==
    /\ pc = "idle" /\ page = t /\ Run
    /\ Len(nodes[t]) < MaxNodes
    /\ nodes' = [nodes EXCEPT ![t] = Append(@, [name |-> node_name, type |-> node_type])]
    /\ last' = Shown("add_node", t, "success", 0)
    /\ UNCHANGED <<version, page, connections, files, pc, sel, snap>>
AddNode(t, node_name, node_type) ==
    /\ pc = "idle" /\ page = t /\ Run
    /\ IF node_name # ""
       THEN /\ Len(nodes[t]) < MaxNodes
            /\ nodes' = [nodes EXCEPT ![t] =
                            Append(@, [name |-> node_name, type |-> node_type])]
            /\ last' = Shown("add_node", t, "success", 0)
       ELSE /\ nodes' = nodes
            /\ last' = Shown("add_node", t, "warning: enter a node name", 0)
    /\ UNCHANGED <<version, page, connections, files, pc, sel, snap>>

\* del some_list[i]
DeleteAtLast(s, i) == SubSeq(s, 1, Len(s) - 1)
DeleteAt(s, i) == SubSeq(s, 1, i - 1) \o SubSeq(s, i + 1, Len(s))

\* the delete button of the node at position i (v2; the links of the older
\* versions run no Python)
DeleteNodeCascading(t, i) ==
    /\ pc = "idle" /\ page = t /\ Run
    /\ version = "flowstream_v2"
    /\ i \in 1..Len(nodes[t])
    /\ nodes' = [nodes EXCEPT ![t] = SubSeq(@, 1, i - 1) \o SubSeq(@, i + 1, Len(@))]
    /\ connections' = [connections EXCEPT ![t] =
          SelectSeq(@, LAMBDA c : c.source # nodes[t][i].name
                                  /\ c.destination # nodes[t][i].name)]
    /\ last' = Shown("delete_node", t, "", i)
    /\ UNCHANGED <<version, page, files, pc, sel, snap>>
DeleteNode(t, i) ==
    /\ pc = "idle" /\ page = t /\ Run
    /\ version = "flowstream_v2"
    /\ i \in 1..Len(nodes[t])
    /\ nodes' = [nodes EXCEPT ![t] = DeleteAt(@, i)]
    /\ last' = Shown("delete_node", t, "", i)
    /\ UNCHANGED <<version, page, connections, files, pc, sel, snap>>

\* node_names, and the options of the "Source:" and "Destination:" selectboxes
AnyNames(t) == {""} \cup NodeNames
EndpointOptions(t) == {""} \cup {nodes[t][i].name : i \in 1..Len(nodes[t])}

\* the validation of the Add Connection handler: "ok", or the warning shown
ConnectionCheckNoSelfLoopTest(source, destination, label) ==
    IF source # "" /\ destination # "" /\ label # "" THEN "ok"
    ELSE "warning: fill in all fields"
ConnectionCheckNoLabelTest(source, destination, label) ==
    IF source # "" /\ destination # "" /\ source # destination THEN "ok"
    ELSE IF source = "" \/ destination = "" THEN "warning: fill in all fields"
    ELSE "warning: source and destination cannot be the same"
ConnectionCheck(source, destination, label) ==
    IF source # "" /\ destination # "" /\ label # "" /\ source # destination THEN "ok"
    ELSE IF source = "" \/ destination = "" \/ label = "" THEN "warning: fill in all fields"
    ELSE IF source = destination THEN "warning: source and destination cannot be the same"
    ELSE "none"

\* "Add <connection>" button
AddConnection(t, source, destination, label, bidirectional) ==
    /\ pc = "idle" /\ page = t /\ Run
    /\ source \in EndpointOptions(t) /\ destination \in EndpointOptions(t)
    /\ LET check == ConnectionCheck(source, destination, label) IN
       IF check = "ok"
       THEN /\ Len(connections[t]) < MaxConnections
            /\ connections' = [connections EXCEPT ![t] =
                  Append(@, [source |-> source, destination |-> destination,
                             label |-> label, bidirectional |-> bidirectional])]
            /\ last' = Shown("add_connection", t, "success", 0)
       ELSE /\ connections' = connections
            /\ last' = Shown("add_connection", t, check, 0)
    /\ UNCHANGED <<version, page, nodes, files, pc, sel, snap>>

\* the delete button of the connection at position i (v2)
DeleteConnection(t, i) ==
    /\ pc = "idle" /\ page = t /\ Run
    /\ version = "flowstream_v2"
    /\ i \in 1..Len(connections[t])
    /\ connections' = [connections EXCEPT ![t] = DeleteAt(@, i)]
    /\ last' = Shown("delete_connection", t, "", i)
    /\ UNCHANGED <<version, page, nodes, files, pc, sel, snap>>

\* "Reset" button
ResetNodesOnly(t) ==
    /\ pc = "idle" /\ page = t /\ Run
    /\ nodes' = [nodes EXCEPT ![t] = <<>>]
    /\ last' = Shown("reset", t, IF version = "flowstream" THEN "success" ELSE "", 0)
    /\ UNCHANGED <<version, page, connections, files, pc, sel, snap>>
Reset(t) ==
    /\ pc = "idle" /\ page = t /\ Run
    /\ nodes' = [nodes EXCEPT ![t] = <<>>]
    /\ connections' = [connections EXCEPT ![t] = <<>>]
    /\ last' = Shown("reset", t, IF version = "flowstream" THEN "success" ELSE "", 0)
    /\ UNCHANGED <<version, page, files, pc, sel, snap>>

(* ------------------------------ persistence ---------------------------- *)

\* the snapshot file of a name: save_data and load_data (v2), save_flows and
\* load_flows (flowstream.py)
SnapshotPath(t, filename) ==
    IF version = "flowstream_v2" THEN DataPath(t, filename) ELSE FlowsPath(t, filename)
SnapshotPrefix(t) ==
    IF version = "flowstream_v2" THEN DataPrefix(t) ELSE FlowsPrefix(t)

\* open(filepath, "w") and the dump: the file holds the new text alone
WriteFileAppend(path, text) ==
    [q \in (DOMAIN files) \cup {path} |->
        IF q # path THEN files[q]
        ELSE IF path \in DOMAIN files THEN files[path] \o text ELSE text]
WriteFile(path, text) ==
    [q \in (DOMAIN files) \cup {path} |-> IF q = path THEN text ELSE files[q]]
RemoveFile(path) == [q \in (DOMAIN files) \ {path} |-> files[q]]

\* what Save writes
SavedTextNoConnections(t) ==
    IF version = "flowstream_v2" THEN DumpData(nodes[t], <<>>)
    ELSE DumpFlows(connections[t])
SavedText(t) ==
    IF version = "flowstream_v2" THEN DumpData(nodes[t], connections[t])
    ELSE DumpFlows(connections[t])

\* the history of (t, n) after the file at path changed from outside
Forget(path) ==
    [t \in DiagramTypes |-> [n \in SaveNames |->
        IF SnapshotPath(t, n) = path THEN NoSnapshot ELSE snap[t][n]]]

\* what open(filepath, "w") and json.dump may do: both succeed; open raises
\* OSError and the file is as it was; the file is opened, which empties it, and
\* the write raises OSError
WriteOutcomes == {"written", "open fails", "write fails"}

\* "Save" button: save_data, save_flows; neither they nor the handler catch
\* the OSError of a failed write
Save(t, save_filename) ==
    /\ pc = "idle" /\ page = t /\ Run
    /\ IF save_filename # <<>>
       THEN \E outcome \in WriteOutcomes :
            CASE outcome = "written" ->
                   /\ files' = WriteFile(SnapshotPath(t, save_filename), SavedText(t))
                   /\ snap' = [snap EXCEPT ![t][save_filename] =
                                  [saved |-> TRUE, nodes |-> nodes[t],
                                   connections |-> connections[t]]]
                   /\ last' = Shown("save", t, "success", 0)
              [] outcome = "open fails" ->
                   /\ UNCHANGED <<files, snap>>
                   /\ last' = Shown("save", t, "exception: OSError", 0)
              [] outcome = "write fails" ->
                   /\ files' = WriteFile(SnapshotPath(t, save_filename), <<>>)
                   /\ snap' = Forget(SnapshotPath(t, save_filename))
                   /\ last' = Shown("save", t, "exception: OSError", 0)
       ELSE /\ UNCHANGED <<files, snap>>
            /\ last' = Shown("save", t, "warning: enter a filename", 0)
    /\ UNCHANGED <<version, page, nodes, connections, pc, sel>>

\* get_available_data_files, get_available_flow_files
get_available_files_by_prefix(t) ==
    {SubSeq(f, Len(SnapshotPrefix(t)) + 1, Len(f) - Len(JsonSuffix)) :
        f \in {g \in DOMAIN files : StartsWith(g, SnapshotPrefix(t))}}
get_available_files(t) ==
    {SubSeq(f, Len(SnapshotPrefix(t)) + 1, Len(f) - Len(JsonSuffix)) :
        f \in {g \in DOMAIN files : StartsWith(g, SnapshotPrefix(t)) /\ EndsWith(g, JsonSuffix)}}

\* "Load" button, up to the call of load_data: the snapshots are listed and
\* the selected one is taken
LoadPress(t, load_filename) ==
    /\ pc = "idle" /\ page = t /\ steps < MaxSteps
    /\ load_filename \in {<<>>} \cup get_available_files(t)
    /\ IF load_filename # <<>>
       THEN /\ pc' = "load"
            /\ sel' = [dtype |-> t, filename |-> load_filename]
            /\ UNCHANGED <<last, steps, dot>>
       ELSE /\ UNCHANGED <<pc, sel>>
            /\ last' = Shown("load", t, "warning: select a file", 0)
            /\ steps' = steps + 1
            /\ dot' = NoDot
    /\ UNCHANGED <<version, page, nodes, connections, files, snap>>

\* load_data of v2: (None, None), or the two lists, and the warning shown
load_data(t, filename) ==
    LET filepath == DataPath(t, filename) IN
    IF filename = <<>>
    THEN [none |-> TRUE, nodes |-> <<>>, connections |-> <<>>, msg |-> "warning: select a file"]
    ELSE IF filepath \in DOMAIN files
    THEN LET data == JsonLoad(files[filepath]) IN
         IF data.ok
         THEN [none |-> FALSE, nodes |-> DictGet(data.val, "nodes"),
               connections |-> DictGet(data.val, "connections"), msg |-> "success"]
         ELSE [none |-> FALSE, nodes |-> <<>>, connections |-> <<>>,
               msg |-> "warning: could not decode"]
    ELSE [none |-> FALSE, nodes |-> <<>>, connections |-> <<>>, msg |-> "warning: not found"]

\* load_flows of flowstream.py: None, or the decoded list
load_flows_empty(t, filename) ==
    LET filepath == FlowsPath(t, filename) IN
    IF filename = <<>>
    THEN [none |-> TRUE, flows |-> <<>>, msg |-> "warning: select a file"]
    ELSE IF filepath \in DOMAIN files
    THEN LET data == JsonLoad(files[filepath]) IN
         IF data.ok THEN [none |-> FALSE, flows |-> data.val, msg |-> "success"]
         ELSE [none |-> FALSE, flows |-> <<>>, msg |-> "warning: could not decode"]
    ELSE [none |-> FALSE, flows |-> <<>>, msg |-> "warning: not found"]
load_flows(t, filename) ==
    LET filepath == FlowsPath(t, filename) IN
    IF filename = <<>>
    THEN [none |-> TRUE, flows |-> <<>>, msg |-> "warning: select a file"]
    ELSE IF filepath \in DOMAIN files
    THEN LET data == JsonLoad(files[filepath]) IN
         IF data.ok THEN [none |-> FALSE, flows |-> data.val, msg |-> "success"]
         ELSE [none |-> TRUE, flows |-> <<>>, msg |-> "warning: could not decode"]
    ELSE [none |-> TRUE, flows |-> <<>>, msg |-> "warning: not found"]

\* the rest of the "Load" handler of v2: load_data and the assignment
LoadData(t) ==
    /\ pc = "load" /\ page = t /\ sel.dtype = t /\ version = "flowstream_v2" /\ Run
    /\ LET loaded == load_data(t, sel.filename) IN
       /\ IF ~loaded.none
          THEN /\ nodes' = [nodes EXCEPT ![t] = loaded.nodes]
               /\ connections' = [connections EXCEPT ![t] = loaded.connections]
          ELSE UNCHANGED <<nodes, connections>>
       /\ last' = Shown("load", t, loaded.msg, 0)
    /\ pc' = "idle" /\ sel' = NoSelection
    /\ UNCHANGED <<version, page, files, snap>>

\* the rest of the "Load Flows" handler of flowstream.py
LoadFlowsClearingNodes(t) ==
    /\ pc = "load" /\ page = t /\ sel.dtype = t /\ version = "flowstream" /\ Run
    /\ LET loaded == load_flows(t, sel.filename) IN
       /\ connections' = IF ~loaded.none THEN [connections EXCEPT ![t] = loaded.flows]
                         ELSE connections
       /\ last' = Shown("load", t, loaded.msg, 0)
    /\ nodes' = [nodes EXCEPT ![t] = <<>>]
    /\ pc' = "idle" /\ sel' = NoSelection
    /\ UNCHANGED <<version, page, files, snap>>
LoadFlows(t) ==
    /\ pc = "load" /\ page = t /\ sel.dtype = t /\ version = "flowstream" /\ Run
    /\ LET loaded == load_flows(t, sel.filename) IN
       /\ connections' = IF ~loaded.none THEN [connections EXCEPT ![t] = loaded.flows]
                         ELSE connections
       /\ last' = Shown("load", t, loaded.msg, 0)
    /\ pc' = "idle" /\ sel' = NoSelection
    /\ UNCHANGED <<version, page, nodes, files, snap>>

(* ------------------------------- rendering ----------------------------- *)
\* The drawing instructions of a Digraph are the sequence of its statements;
\* an attribute a statement does not give is the empty string.

\* dot.node(name, label, shape=shape)
NodeStatement(name, label, shape) ==
    [kind |-> "node", tail |-> name, head |-> "", label |-> label,
     shape |-> shape, style |-> "", dir |-> ""]
\* dot.edge(tail, head, label=label, style=style, dir=dir)
EdgeStatement(tail, head, label, style, dir) ==
    [kind |-> "edge", tail |-> tail, head |-> head, label |-> label,
     shape |-> "", style |-> style, dir |-> dir]

\* shape_map.get(node_type, "ellipse") of flowstream_v2.py
shape_map(node_type) ==
    CASE node_type = "Process" -> "ellipse"
      [] node_type = "External Entity" -> "square"
      [] node_type = "Data Store" -> "cylinder"
      [] node_type = "Event" -> "circle"
      [] node_type = "Gateway" -> "diamond"
      [] node_type = "Component" -> "component"
      [] node_type = "Node" -> "box3d"
      [] node_type = "Class" -> "record"
      [] node_type = "Entity" -> "box"
      [] node_type = "Attribute" -> "oval"
      [] node_type = "Decision" -> "diamond"
      [] node_type = "Start/End" -> "ellipse"
      [] OTHER -> "ellipse"

\* the if/elif chain of draw_node of flowstream.py and streamfd.py
shape_chain(node_type) ==
    IF node_type = "Process" THEN "ellipse"
    ELSE IF node_type = "External Entity" THEN "square"
    ELSE IF node_type = "Data Store" THEN "cylinder"
    ELSE IF node_type = "Event" THEN "circle"
    ELSE IF node_type = "Gateway" THEN "diamond"
    ELSE IF node_type = "Component" THEN "component"
    ELSE IF node_type = "Node" THEN "box3d"
    ELSE IF node_type = "Class" THEN "record"
    ELSE IF node_type = "Entity" THEN "box"
    ELSE "ellipse"

\* draw_node: the statement it adds to dot
draw_node_ellipse(node_name, node_type) == NodeStatement(node_name, node_name, "ellipse")
draw_node(node_name, node_type) ==
    NodeStatement(node_name, node_name,
                  IF version = "flowstream_v2" THEN shape_map(node_type)
                  ELSE shape_chain(node_type))

\* connection.get("bidirectional", False)
GetBidirectional(connection) ==
    IF "bidirectional" \in DOMAIN connection THEN connection.bidirectional ELSE FALSE

\* the body of the loop over the connections: the edges of one connection
connection_edges_visible_reverse(connection) ==
    IF version = "streamfd"
    THEN <<EdgeStatement(connection.source, connection.destination, connection.label, "", "")>>
    ELSE <<EdgeStatement(connection.source, connection.destination, connection.label, "",
                         IF GetBidirectional(connection) THEN "both" ELSE "forward")>>
         \o (IF GetBidirectional(connection)
             THEN <<EdgeStatement(connection.destination, connection.source,
                                  connection.label, "", "forward")>>
             ELSE <<>>)
connection_edges(connection) ==
    IF version = "streamfd"
    THEN <<EdgeStatement(connection.source, connection.destination, connection.label, "", "")>>
    ELSE <<EdgeStatement(connection.source, connection.destination, connection.label, "",
                         IF GetBidirectional(connection) THEN "both" ELSE "forward")>>
         \o (IF GetBidirectional(connection)
             THEN <<EdgeStatement(connection.destination, connection.source, "", "invis", "")>>
             ELSE <<>>)

RECURSIVE draw_edges(_, _)
\* for connection in connections: the edges of the connections from position i on
draw_edges(cs, i) ==
    IF i > Len(cs) THEN <<>> ELSE connection_edges(cs[i]) \o draw_edges(cs, i + 1)

\* active_nodes of generate_diagram (v2)
active_nodes(cs) ==
    {cs[i].source : i \in 1..Len(cs)} \cup {cs[i].destination : i \in 1..Len(cs)}

\* the nodes generate_diagram draws: v2 leaves out the nodes of no connection,
\* unless there is no connection; the older versions draw every node
drawn_nodes_unfiltered(ns, cs) == ns
drawn_nodes(ns, cs) ==
    IF version = "flowstream_v2"
    THEN SelectSeq(ns, LAMBDA node : node.name \in active_nodes(cs) \/ cs = <<>>)
    ELSE ns

\* generate_diagram (v2), generate_<type>_diagram (older versions): dot
generate_diagram_known_edges(ns, cs) ==
    [i \in 1..Len(drawn_nodes(ns, cs)) |->
        draw_node(drawn_nodes(ns, cs)[i].name, drawn_nodes(ns, cs)[i].type)]
    \o draw_edges(SelectSeq(cs, LAMBDA c :
            /\ \E i \in 1..Len(ns) : ns[i].name = c.source
            /\ \E i \in 1..Len(ns) : ns[i].name = c.destination), 1)
generate_diagram(ns, cs) ==
    [i \in 1..Len(drawn_nodes(ns, cs)) |->
        draw_node(drawn_nodes(ns, cs)[i].name, drawn_nodes(ns, cs)[i].type)]
    \o draw_edges(cs, 1)

(* ------------------------------- Generate ------------------------------ *)

\* the choices of "Select output format:" explored (the code also has svg, pdf)
OutputFormats == {"png", "dot"}

\* positional parameters generate_diagram of v2 declares, and arguments the
\* Generate handler of v2 passes
generate_diagram_parameters == 7
generate_diagram_arguments == 8
\* the same for the generate functions and the handler of flowstream.py
generate_function_parameters == 5
generate_function_arguments == 5

\* the same for the generate functions and the handler of streamfd.py
generate_streamfd_parameters == 3
generate_streamfd_arguments == 3

\* the call of the Generate handler binds its arguments, else TypeError
CallAccepted ==
    IF version = "flowstream_v2"
    THEN generate_diagram_arguments <= generate_diagram_parameters
    ELSE IF version = "flowstream"
    THEN generate_function_arguments <= generate_function_parameters
    ELSE generate_streamfd_arguments <= generate_streamfd_parameters

\* the default of "Enter filename (without extension):"
DiagramFilename(t) == TypeChars(t) \o <<"_", "d", "i", "a", "g", "r", "a", "m">>
\* "." and the output format
FormatSuffix(output_format) ==
    IF output_format = "dot" THEN <<".", "d", "o", "t">> ELSE <<".", "p", "n", "g">>

\* dot.source: one line per statement
DotSource(d) ==
    [i \in 1..Len(d) |->
        <<"statement", d[i].kind, d[i].tail, d[i].head, d[i].label,
          d[i].shape, d[i].style, d[i].dir>>]

\* save_diagram: the working directory after it
save_diagram(d, filename, output_format) ==
    IF output_format = "dot"
    THEN [q \in (DOMAIN files) \cup {filename \o FormatSuffix(output_format)} |->
             IF q = filename \o FormatSuffix(output_format) THEN DotSource(d) ELSE files[q]]
    ELSE [q \in (DOMAIN files) \cup {filename, filename \o FormatSuffix(output_format)} |->
             IF q = filename THEN DotSource(d)
             ELSE IF q = filename \o FormatSuffix(output_format)
                  THEN <<<<"image", output_format>>>>
                  ELSE files[q]]

\* "Generate and Display Diagram" button
GenerateWithoutConnections(t, output_format) ==
    /\ pc = "idle" /\ page = t /\ Tick
    /\ IF nodes[t] # <<>>
       THEN IF CallAccepted
            THEN /\ dot' = generate_diagram(nodes[t], connections[t])
                 /\ files' = save_diagram(dot', DiagramFilename(t), output_format)
                 /\ last' = Shown("generate", t, "success", 0)
            ELSE /\ dot' = NoDot
                 /\ files' = files
                 /\ last' = Shown("generate", t, "exception: TypeError", 0)
       ELSE /\ dot' = NoDot
            /\ files' = files
            /\ last' = Shown("generate", t, "warning: add nodes and connections", 0)
    /\ UNCHANGED <<version, page, nodes, connections, pc, sel, snap>>
Generate(t, output_format) ==
    /\ pc = "idle" /\ page = t /\ Tick
    /\ IF nodes[t] # <<>> /\ connections[t] # <<>>
       THEN IF CallAccepted
            THEN /\ dot' = generate_diagram(nodes[t], connections[t])
                 /\ files' = save_diagram(dot', DiagramFilename(t), output_format)
                 /\ last' = Shown("generate", t, "success", 0)
            ELSE /\ dot' = NoDot
                 /\ files' = files
                 /\ last' = Shown("generate", t, "exception: TypeError", 0)
       ELSE /\ dot' = NoDot
            /\ files' = files
            /\ last' = Shown("generate", t, "warning: add nodes and connections", 0)
    /\ UNCHANGED <<version, page, nodes, connections, pc, sel, snap>>

(* ------------------- the working directory from outside ---------------- *)

\* the snapshot paths something outside the program writes to
OutsidePaths == {SnapshotPath(t, n) : t \in DiagramTypes, n \in SaveNames}

\* a file of the working directory is removed
OutsideRemove(path) ==
    /\ Tick
    /\ path \in DOMAIN files
    /\ files' = RemoveFile(path)
    /\ snap' = Forget(path)
    /\ UNCHANGED <<version, page, nodes, connections, pc, sel, last, dot>>

\* a file of the working directory is overwritten with something else
OutsideWrite(path, text) ==
    /\ Tick
    /\ files' = WriteFile(path, text)
    /\ snap' = Forget(path)
    /\ UNCHANGED <<version, page, nodes, connections, pc, sel, last, dot>>

(* ---------------------------- specification ---------------------------- *)

Next ==
    \/ \E p \in DiagramTypes \cup {"Introduction"} : Navigate(p)
    \/ \E t \in DiagramTypes, name \in NodeNames \cup {""} :
          \E ty \in NodeTypeChoices(t) : AddNode(t, name, ty)
    \/ \E t \in DiagramTypes, i \in 1..MaxNodes : DeleteNode(t, i)
    \/ \E t \in DiagramTypes, s \in NodeNames \cup {""}, d \in NodeNames \cup {""},
          l \in Labels \cup {""}, b \in BOOLEAN : AddConnection(t, s, d, l, b)
    \/ \E t \in DiagramTypes, i \in 1..MaxConnections : DeleteConnection(t, i)
    \/ \E t \in DiagramTypes : Reset(t)
    \/ \E t \in DiagramTypes, n \in SaveNames \cup {<<>>} : Save(t, n)
    \/ \E t \in DiagramTypes, n \in SaveNames \cup {<<>>} : LoadPress(t, n)
    \/ \E t \in DiagramTypes, f \in OutputFormats : Generate(t, f)
    \/ \E t \in DiagramTypes : LoadData(t)
    \/ \E t \in DiagramTypes : LoadFlows(t)
    \/ \E p \in OutsidePaths : OutsideRemove(p)
    \/ \E p \in OutsidePaths, x \in OutsideTexts : OutsideWrite(p, x)

Spec == Init /\ [][Next]_vars

(* ------------------- the rendering functions on their own -------------- *)
\* generate_diagram applied to node and connection lists the handlers, the
\* delete buttons and Load can leave in the session.

\* longest node list generate_diagram is applied to
RenderNodes == 2
\* longest connection list generate_diagram is applied to
RenderConnections == 2

\* the versions whose connections carry the bidirectional field
RenderVersions == {"flowstream_v2", "flowstream"}
\* the nodes of the lists
RenderNodeChoices ==
    {[name |-> "Customer", type |-> "External Entity"],
     [name |-> "OrderService", type |-> "Process"],
     [name |-> "Ledger", type |-> "Data Store"]}
\* the endpoints of the connections of the lists
RenderEndpoints ==
    {<<"Customer", "OrderService">>, <<"OrderService", "Customer">>,
     <<"OrderService", "Ledger">>}
\* the connections of the lists: as Add Connection builds them, and as a
\* snapshot written by streamfd.py or by hand holds them, without the field
RenderConnectionChoices ==
    {[source |-> e[1], destination |-> e[2], label |-> l, bidirectional |-> b] :
        e \in RenderEndpoints, l \in Labels, b \in BOOLEAN}
    \cup {[source |-> e[1], destination |-> e[2], label |-> l] :
             e \in RenderEndpoints, l \in Labels}

\* the lists over S of length n at most
SeqsUpTo(S, n) == UNION {[1..k -> S] : k \in 0..n}

RenderInit ==
    /\ version \in RenderVersions
    /\ page = "dfd"
    /\ \E ns \in SeqsUpTo(RenderNodeChoices, RenderNodes) :
          nodes = [t \in DiagramTypes |-> IF t = "dfd" THEN ns ELSE <<>>]
    /\ \E cs \in SeqsUpTo(RenderConnectionChoices, RenderConnections) :
          connections = [t \in DiagramTypes |-> IF t = "dfd" THEN cs ELSE <<>>]
    /\ files = <<>>
    /\ pc = "idle"
    /\ sel = NoSelection
    /\ last = Shown("start", "", "", 0)
    /\ snap = [t \in DiagramTypes |-> [n \in SaveNames |-> NoSnapshot]]
    /\ steps = 0
    /\ dot = NoDot

\* the call generate_diagram(nodes, connections) with the parameters it declares
RenderDiagram(t) ==
    /\ page = t /\ last.op # "render"
    /\ dot' = generate_diagram(nodes[t], connections[t])
    /\ last' = Shown("render", t, "", 0)
    /\ UNCHANGED <<version, page, nodes, connections, files, pc, sel, snap, steps>>

\* the function is called on the lists as they are or after a node was deleted
RenderNext ==
    \/ \E t \in DiagramTypes : RenderDiagram(t)
    \/ \E t \in DiagramTypes, i \in 1..RenderNodes : DeleteNode(t, i)

SpecRender == RenderInit /\ [][RenderNext]_vars

(* --------------------- flowstream.py with a diagram begun -------------- *)
\* flowstream.py on the dfd page after Customer and OrderService were added;
\* steps counts the runs from here on.

FlowsInit ==
    /\ version = "flowstream"
    /\ page = "dfd"
    /\ nodes = [t \in DiagramTypes |->
                   IF t = "dfd"
                   THEN <<[name |-> "Customer", type |-> "External Entity"],
                          [name |-> "OrderService", type |-> "Process"]>>
                   ELSE <<>>]
    /\ connections = [t \in DiagramTypes |-> <<>>]
    /\ files = <<>>
    /\ pc = "idle"
    /\ sel = NoSelection
    /\ last = Shown("add_node", "dfd", "success", 0)
    /\ snap = [t \in DiagramTypes |-> [n \in SaveNames |-> NoSnapshot]]
    /\ steps = 0
    /\ dot = NoDot

\* the buttons of flowstream.py that change the lists or the snapshots (its
\* delete links run no Python), the page staying as it is
FlowsNext ==
    \/ \E t \in DiagramTypes, name \in NodeNames \cup {""} :
          \E ty \in NodeTypeChoices(t) : AddNode(t, name, ty)
    \/ \E t \in DiagramTypes, s \in NodeNames \cup {""}, d \in NodeNames \cup {""},
          l \in Labels \cup {""}, b \in BOOLEAN : AddConnection(t, s, d, l, b)
    \/ \E t \in DiagramTypes : Reset(t)
    \/ \E t \in DiagramTypes, n \in SaveNames \cup {<<>>} : Save(t, n)
    \/ \E t \in DiagramTypes, n \in SaveNames \cup {<<>>} : LoadPress(t, n)
    \/ \E t \in DiagramTypes : LoadFlows(t)
    \/ \E p \in OutsidePaths : OutsideRemove(p)
    \/ \E p \in OutsidePaths, x \in OutsideTexts : OutsideWrite(p, x)

SpecFlows == FlowsInit /\ [][FlowsNext]_vars

(* --------------------------- draw_node on its own ---------------------- *)

\* the three versions of the program
AllVersions == {"streamfd", "flowstream", "flowstream_v2"}
\* a type no page offers, as a loaded snapshot may hold it
UnmappedType == "Actor"

ShapeInit ==
    /\ version \in AllVersions
    /\ page \in AllDiagramTypes
    /\ \E name \in NodeNames, ty \in node_types(page) \cup {UnmappedType} :
          nodes = [t \in AllDiagramTypes |->
                      IF t = page THEN <<[name |-> name, type |-> ty]>> ELSE <<>>]
    /\ connections = [t \in AllDiagramTypes |-> <<>>]
    /\ files = <<>>
    /\ pc = "idle"
    /\ sel = NoSelection
    /\ last = Shown("start", "", "", 0)
    /\ snap = [t \in AllDiagramTypes |-> [n \in SaveNames |-> NoSnapshot]]
    /\ steps = 0
    /\ dot = NoDot

\* the call draw_node(dot, node["name"], node["type"]) on an empty dot
DrawNode(t) ==
    /\ page = t /\ last.op = "start"
    /\ dot' = <<draw_node(nodes[t][1].name, nodes[t][1].type)>>
    /\ last' = Shown("draw_node", t, "", 0)
    /\ UNCHANGED <<version, page, nodes, connections, files, pc, sel, snap, steps>>

ShapeNext == \E t \in AllDiagramTypes : DrawNode(t)

SpecShapes == ShapeInit /\ [][ShapeNext]_vars

(* ---------------------- the Generate button on its own ----------------- *)
\* The Generate handler of each of the three versions, pressed on node and
\* connection lists the page can hold, empty ones among them.

\* the connections of the lists: streamfd.py builds them without the field
GenerateConnectionChoices ==
    IF version = "streamfd"
    THEN {[source |-> "Customer", destination |-> "OrderService", label |-> l] :
             l \in Labels}
    ELSE {[source |-> "Customer", destination |-> "OrderService", label |-> l,
           bidirectional |-> b] : l \in Labels, b \in BOOLEAN}

GenerateInit ==
    /\ version \in AllVersions
    /\ page = "dfd"
    /\ \E ns \in SeqsUpTo(RenderNodeChoices, RenderNodes) :
          nodes = [t \in DiagramTypes |-> IF t = "dfd" THEN ns ELSE <<>>]
    /\ \E cs \in SeqsUpTo(GenerateConnectionChoices, RenderConnections) :
          connections = [t \in DiagramTypes |-> IF t = "dfd" THEN cs ELSE <<>>]
    /\ files = <<>>
    /\ pc = "idle"
    /\ sel = NoSelection
    /\ last = Shown("start", "", "", 0)
    /\ snap = [t \in DiagramTypes |-> [n \in SaveNames |-> NoSnapshot]]
    /\ steps = 0
    /\ dot = NoDot

GenerateNext == \E t \in DiagramTypes, f \in OutputFormats : Generate(t, f)

SpecGenerate == GenerateInit /\ [][GenerateNext]_vars

(* ------------------ the snapshots of a working directory --------------- *)
\* flowstream_v2.py started in a directory that already holds files (snapshots,
\* files of the older layout, names that nearly match), on the dfd page after
\* Customer was added; steps counts the runs from here on.

\* the file names the directory may hold at the start
ListingPaths ==
    {DataPath("dfd", <<>>), DataPath("erd", <<"a">>), FlowsPath("dfd", <<"a">>),
     DataPrefix("dfd") \o <<"a">>}

ListingInit ==
    /\ version = "flowstream_v2"
    /\ page = "dfd"
    /\ nodes = [t \in DiagramTypes |->
                   IF t = "dfd" THEN <<[name |-> "Customer", type |-> "External Entity"]>>
                   ELSE <<>>]
    /\ connections = [t \in DiagramTypes |-> <<>>]
    /\ \E present \in SUBSET ListingPaths : files = [q \in present |-> DumpData(<<>>, <<>>)]
    /\ pc = "idle"
    /\ sel = NoSelection
    /\ last = Shown("add_node", "dfd", "success", 0)
    /\ snap = [t \in DiagramTypes |-> [n \in SaveNames |-> NoSnapshot]]
    /\ steps = 0
    /\ dot = NoDot

\* the buttons of the Save and Load columns, and the directory from outside
ListingNext ==
    \/ \E t \in DiagramTypes, n \in SaveNames \cup {<<>>} : Save(t, n)
    \/ \E t \in DiagramTypes, n \in SaveNames \cup {<<>>} : LoadPress(t, n)
    \/ \E t \in DiagramTypes : LoadData(t)
    \/ \E p \in OutsidePaths : OutsideRemove(p)

SpecListing == ListingInit /\ [][ListingNext]_vars

(* -------------------------------- claims ------------------------------- *)

V2 == version = "flowstream_v2"
\* the step that ends a Load run: load_data (load_flows) and the assignment
LoadStep(t) == pc = "load" /\ pc' = "idle" /\ sel.dtype = t
NamesOf(ns) == {ns[i].name : i \in 1..Len(ns)}
\* s with its element at position i taken out, said element by element
RemovedAt(after, before, i) ==
    /\ Len(after) = Len(before) - 1
    /\ \A j \in 1..Len(after) : after[j] = IF j < i THEN before[j] ELSE before[j + 1]
\* s with x put at its end, said element by element
AppendedOne(after, before, x) ==
    /\ Len(after) = Len(before) + 1
    /\ after[Len(after)] = x
    /\ \A j \in 1..Len(before) : after[j] = before[j]

\* C1: in v2, a Load of name n whose file still is the one the last Save under
\* n wrote (whatever adds, removes, resets, navigations and other saves came
\* between) sets the node and connection sequences to the saved ones, in order.
C1_SaveLoadRoundTrip ==
    [][\A t \in DiagramTypes :
         (V2 /\ LoadStep(t) /\ sel.filename \in SaveNames /\ snap[t][sel.filename].saved)
         => /\ nodes'[t] = snap[t][sel.filename].nodes
            /\ connections'[t] = snap[t][sel.filename].connections]_vars

\* C1 witness: a v2 Load has just restored a saved state of two nodes and a connection
C1_Witness ==
    /\ V2 /\ last.op = "load" /\ last.msg = "success" /\ last.dtype = "dfd"
    /\ snap["dfd"][<<"a">>].saved
    /\ Len(nodes["dfd"]) = 2 /\ Len(connections["dfd"]) = 1
    /\ nodes["dfd"] = snap["dfd"][<<"a">>].nodes

\* C2: in v2, a Load whose snapshot file is gone when load_data opens it leaves
\* the node and connection sequences of that diagram type as they were.
C2_LoadMissingKeepsState ==
    [][\A t \in DiagramTypes :
         (V2 /\ LoadStep(t) /\ DataPath(t, sel.filename) \notin DOMAIN files)
         => nodes'[t] = nodes[t] /\ connections'[t] = connections[t]]_vars

\* C3: in v2, a Load of a snapshot file that holds no valid JSON leaves the node
\* and connection sequences of that diagram type as they were.
C3_LoadMalformedKeepsState ==
    [][\A t \in DiagramTypes :
         (V2 /\ LoadStep(t) /\ DataPath(t, sel.filename) \in DOMAIN files
             /\ ~JsonLoad(files[DataPath(t, sel.filename)]).ok)
         => nodes'[t] = nodes[t] /\ connections'[t] = connections[t]]_vars

\* C4: Add Node with a non-empty name appends exactly the node {name, type} at
\* the end (earlier nodes and all connections unchanged); with an empty name it
\* shows a warning and leaves the node sequence unchanged.
C4_AddNodeAppendsOne ==
    [][last'.op = "add_node" =>
       \A t \in DiagramTypes, name \in NodeNames \cup {""} : \A ty \in NodeTypeChoices(t) :
         \/ IF name # ""
            THEN /\ AppendedOne(nodes'[t], nodes[t], [name |-> name, type |-> ty])
                 /\ connections' = connections
                 /\ last'.msg = "success"
            ELSE /\ nodes' = nodes
                 /\ last'.msg = "warning: enter a node name"
         \/ ~AddNode(t, name, ty)]_vars

\* C4 witness: a second node has just been added
C4_Witness ==
    /\ last.op = "add_node" /\ last.msg = "success"
    /\ Len(nodes[last.dtype]) = 2

\* C5: Add Connection with a non-empty source and the destination equal to it
\* never appends: the connection sequence is unchanged, whatever the label.
C5_NoSelfLoopAdded ==
    [][last'.op = "add_connection" =>
       \A t \in DiagramTypes, s \in NodeNames, l \in Labels \cup {""}, b \in BOOLEAN :
         connections' = connections \/ ~AddConnection(t, s, s, l, b)]_vars

\* C5 witness: a self-loop has just been refused on a diagram that has a connection
C5_Witness ==
    /\ last.op = "add_connection"
    /\ last.msg = "warning: source and destination cannot be the same"
    /\ Len(connections[last.dtype]) >= 1

\* C6: Add Connection with an empty source, destination or label shows a warning
\* and changes neither sequence; with all three non-empty and source different
\* from destination it appends exactly {source, destination, label, bidirectional}.
C6_AddConnectionValidates ==
    [][last'.op = "add_connection" =>
       \A t \in DiagramTypes, s \in NodeNames \cup {""}, d \in NodeNames \cup {""},
          l \in Labels \cup {""}, b \in BOOLEAN :
         \/ t # page
         \/ IF s = "" \/ d = "" \/ l = ""
            THEN /\ nodes' = nodes /\ connections' = connections
                 /\ last'.msg = "warning: fill in all fields"
            ELSE (s # d) =>
                 /\ AppendedOne(connections'[t], connections[t],
                       [source |-> s, destination |-> d, label |-> l, bidirectional |-> b])
                 /\ nodes' = nodes
         \/ ~AddConnection(t, s, d, l, b)]_vars

\* C6 witness: with two nodes to choose from, an incomplete connection has just
\* been refused
C6_Witness ==
    /\ last.op = "add_connection" /\ last.msg = "warning: fill in all fields"
    /\ Len(nodes[last.dtype]) = 2

\* C7: in v2, removing the node at any position leaves the connection sequence
\* unchanged, connections from or to the removed node included.
C7_DeleteNodeKeepsConnections ==
    [][last'.op = "delete_node" =>
       \A t \in DiagramTypes : \A i \in 1..Len(nodes[t]) :
         connections' = connections \/ ~DeleteNode(t, i)]_vars

\* C7 witness: a node has just been removed and a connection still names it
C7_Witness ==
    /\ last.op = "delete_node"
    /\ \E k \in 1..Len(connections[last.dtype]) :
          connections[last.dtype][k].source \notin NamesOf(nodes[last.dtype])

C9_UniqueNodeNames ==
    \A t \in DiagramTypes : \A i, j \in 1..Len(nodes[t]) :
        i # j => nodes[t][i].name # nodes[t][j].name

\* C10: every connection appended by Add Connection has a source and a
\* destination that are names of nodes in the node sequence at that moment.
C10_EndpointsExistWhenAdded ==
    [][\A t \in DiagramTypes :
         (last'.op = "add_connection" /\ last'.dtype = t
             /\ Len(connections'[t]) = Len(connections[t]) + 1)
         => LET c == connections'[t][Len(connections'[t])] IN
            /\ c.source \in NamesOf(nodes[t])
            /\ c.destination \in NamesOf(nodes[t])]_vars

\* C10 witness: a connection between two present nodes has just been added
C10_Witness ==
    /\ last.op = "add_connection" /\ last.msg = "success"
    /\ LET c == connections[last.dtype][Len(connections[last.dtype])] IN
       c.source \in NamesOf(nodes[last.dtype]) /\ c.destination \in NamesOf(nodes[last.dtype])

\* C11: a step of the page of one diagram type leaves the node and connection
\* sequences of every other type unchanged, and the snapshot file a Save or a
\* Load of one type uses is never among the files listed for another of the
\* five diagram types, nor the file a Load of another type would open.
C11_TypesAreSeparate ==
    [][/\ \A t \in DiagramTypes :
            t # page => nodes'[t] = nodes[t] /\ connections'[t] = connections[t]
       /\ \A t \in DiagramTypes :
            (last'.op \in {"save", "load"} /\ last'.dtype = t)
            => \A n \in SaveNames \cup get_available_files(t)', u \in AllDiagramTypes \ {t} :
                 /\ ~(/\ StartsWith(SnapshotPath(t, n), SnapshotPrefix(u))
                      /\ EndsWith(SnapshotPath(t, n), JsonSuffix))
                 /\ \A m \in SaveNames \cup get_available_files(u)' :
                       SnapshotPath(u, m) # SnapshotPath(t, n)]_vars

\* C11 witness: a Load on the erd page has just restored an empty erd snapshot
\* while dfd keeps its nodes and has a snapshot of its own under the same name
C11_Witness ==
    /\ last.op = "load" /\ last.dtype = "erd" /\ last.msg = "success"
    /\ nodes["erd"] = <<>> /\ Len(nodes["dfd"]) >= 1
    /\ snap["dfd"][<<"a">>].saved /\ snap["erd"][<<"a">>].saved
    /\ snap["dfd"][<<"a">>].nodes # snap["erd"][<<"a">>].nodes

\* C12: in v2, Save with an empty filename writes no file and changes neither
\* sequence; Save with a non-empty filename that reports success changes
\* neither sequence nor any other file, and the file of that name then decodes
\* to exactly the current node and connection sequences, whatever it held.
C12_SaveReplacesFile ==
    [][(V2 /\ last'.op = "save") =>
       \A t \in DiagramTypes, n \in SaveNames \cup {<<>>} :
         \/ IF n = <<>>
            THEN files' = files /\ nodes' = nodes /\ connections' = connections
            ELSE last'.msg = "success" =>
                 /\ nodes' = nodes /\ connections' = connections
                 /\ \A q \in DOMAIN files :
                       q # DataPath(t, n) => q \in DOMAIN files' /\ files'[q] = files[q]
                 /\ DataPath(t, n) \in DOMAIN files'
                 /\ LET data == JsonLoad(files'[DataPath(t, n)]) IN
                       /\ data.ok
                       /\ DictGet(data.val, "nodes") = nodes[t]
                       /\ DictGet(data.val, "connections") = connections[t]
         \/ ~Save(t, n)]_vars

\* C12 witness: a v2 Save of two nodes and a connection has just succeeded
C12_Witness ==
    /\ V2 /\ last.op = "save" /\ last.msg = "success"
    /\ Len(nodes[last.dtype]) = 2 /\ Len(connections[last.dtype]) = 1
    /\ DataPath(last.dtype, <<"a">>) \in DOMAIN files

\* C13: Reset, from any reachable state, leaves the node sequence and the
\* connection sequence of the current diagram type empty and every file of the
\* working directory as it was.
C13_ResetEmptiesBoth ==
    [][last'.op = "reset" =>
       \A t \in DiagramTypes :
         \/ nodes'[t] = <<>> /\ connections'[t] = <<>> /\ files' = files
         \/ ~Reset(t)]_vars

\* C13 witness: Reset has just emptied a diagram whose snapshot, with nodes and
\* a connection in it, is still in the working directory
C13_Witness ==
    /\ last.op = "reset" /\ nodes[last.dtype] = <<>> /\ connections[last.dtype] = <<>>
    /\ SnapshotPath(last.dtype, <<"a">>) \in DOMAIN files
    /\ snap[last.dtype][<<"a">>].saved
    /\ Len(snap[last.dtype][<<"a">>].connections) = 1
    /\ files[SnapshotPath(last.dtype, <<"a">>)] # DumpData(<<>>, <<>>)

\* C14: in v2, Generate pressed with a non-empty node sequence and a non-empty
\* connection sequence ends with drawing instructions, not with an exception.
C14_GenerateProducesDiagram ==
    [][\A t \in DiagramTypes :
         (V2 /\ last'.op = "generate" /\ last'.dtype = t
             /\ nodes[t] # <<>> /\ connections[t] # <<>>)
         => last'.msg = "success" /\ dot' # NoDot]_vars

\* C15: a Save whose file write fails ends with a reported error, not with an
\* exception nobody caught, and changes neither sequence: every Save step ends
\* in success, the filename warning or a reported error, with both sequences
\* as they were.
C15_SaveFailureReported ==
    [][last'.op = "save" =>
         /\ last'.msg \in {"success", "warning: enter a filename", "error: could not save"}
         /\ nodes' = nodes /\ connections' = connections]_vars

\* the dfd diagram of the example: Customer, OrderService and one connection
ExampleScenario ==
    /\ nodes["dfd"] = <<[name |-> "Customer", type |-> "External Entity"],
                        [name |-> "OrderService", type |-> "Process"]>>
    /\ connections["dfd"] = <<[source |-> "Customer", destination |-> "OrderService",
                               label |-> "Places Order", bidirectional |-> FALSE]>>
\* the positions of d that hold a statement of a kind
StatementsOf(d, kind) == {i \in 1..Len(d) : d[i].kind = kind}

\* C16: generate_diagram applied to the dfd of the example (Customer an External
\* Entity, OrderService a Process, one connection Customer -> OrderService
\* labelled Places Order, not bidirectional) gives exactly one square node,
\* Customer, exactly one ellipse node, OrderService, no other node, and exactly
\* one edge, visible, directed from Customer to OrderService, labelled Places Order.
C16_ExampleDrawing ==
    (last.op = "render" /\ last.dtype = "dfd" /\ ExampleScenario) =>
        /\ Cardinality(StatementsOf(dot, "node")) = 2
        /\ Cardinality(StatementsOf(dot, "edge")) = 1
        /\ \E i \in StatementsOf(dot, "node") :
              dot[i].tail = "Customer" /\ dot[i].shape = "square"
        /\ \E i \in StatementsOf(dot, "node") :
              dot[i].tail = "OrderService" /\ dot[i].shape = "ellipse"
        /\ \A i \in StatementsOf(dot, "edge") :
              /\ dot[i].tail = "Customer" /\ dot[i].head = "OrderService"
              /\ dot[i].label = "Places Order"
              /\ dot[i].dir = "forward" /\ dot[i].style # "invis"

\* C16 witness: v2 generate_diagram has drawn the dfd of the example
C16_Witness ==
    /\ V2 /\ last.op = "render" /\ last.dtype = "dfd" /\ ExampleScenario
    /\ Len(dot) = 3

\* the edge statements of d, in their order
EdgesOf(d) == SelectSeq(d, LAMBDA st : st.kind = "edge")
\* a connection that has the bidirectional field, set
MarkedBidirectional(c) == "bidirectional" \in DOMAIN c /\ c.bidirectional
\* where the edge of connection k stands among the edges: after the edges of
\* the connections before it and their reverse edges
EdgePosition(cs, k) == k + Cardinality({j \in 1..(k - 1) : MarkedBidirectional(cs[j])})

\* C17: in flowstream.py and v2 the edges of a drawing are, connection by
\* connection in sequence order, one visible edge from source to destination
\* with the label, followed at once, for a bidirectional connection only, by
\* one invisible edge from destination to source with the empty label; a
\* connection that is not bidirectional or lacks the field adds no other edge.
C17_EdgesOfConnections ==
    (last.op = "render") =>
        LET cs == connections[last.dtype]
            edges == EdgesOf(dot)
        IN /\ Len(edges) = EdgePosition(cs, Len(cs) + 1) - 1
           /\ \A k \in 1..Len(cs) :
                 /\ edges[EdgePosition(cs, k)].tail = cs[k].source
                 /\ edges[EdgePosition(cs, k)].head = cs[k].destination
                 /\ edges[EdgePosition(cs, k)].label = cs[k].label
                 /\ edges[EdgePosition(cs, k)].style # "invis"
                 /\ MarkedBidirectional(cs[k]) =>
                       /\ edges[EdgePosition(cs, k) + 1].tail = cs[k].destination
                       /\ edges[EdgePosition(cs, k) + 1].head = cs[k].source
                       /\ edges[EdgePosition(cs, k) + 1].label = ""
                       /\ edges[EdgePosition(cs, k) + 1].style = "invis"

\* C17 witness: a bidirectional connection followed by one without the field
\* has been drawn as three edges
C17_Witness ==
    /\ last.op = "render" /\ Len(connections[last.dtype]) = 2
    /\ MarkedBidirectional(connections[last.dtype][1])
    /\ "bidirectional" \notin DOMAIN connections[last.dtype][2]
    /\ Len(EdgesOf(dot)) = 3

\* the type-to-shape table of the specification
TableShape(node_type) ==
    CASE node_type = "Process" -> "ellipse"
      [] node_type = "External Entity" -> "square"
      [] node_type = "Data Store" -> "cylinder"
      [] node_type = "Event" -> "circle"
      [] node_type = "Gateway" -> "diamond"
      [] node_type = "Component" -> "component"
      [] node_type = "Node" -> "box3d"
      [] node_type = "Class" -> "record"
      [] node_type = "Entity" -> "box"
      [] node_type = "Attribute" -> "oval"
      [] node_type = "Decision" -> "diamond"
      [] node_type = "Start/End" -> "ellipse"
      [] OTHER -> "ellipse"

\* C18: in every version draw_node draws the node under its name with the
\* shape the table gives for its type, and as an ellipse for any other type.
C18_ShapeFollowsTable ==
    (last.op = "draw_node") =>
        /\ Len(dot) = 1
        /\ dot[1].kind = "node"
        /\ dot[1].tail = nodes[last.dtype][1].name
        /\ dot[1].shape = TableShape(nodes[last.dtype][1].type)

\* the node statements of d, in their order
NodesOf(d) == SelectSeq(d, LAMBDA st : st.kind = "node")
\* the positions of ns whose node is an endpoint of a connection of cs, or all
\* positions when cs is empty
DeclaredPositions(ns, cs) ==
    {i \in 1..Len(ns) :
        \/ cs = <<>>
        \/ \E k \in 1..Len(cs) : ns[i].name \in {cs[k].source, cs[k].destination}}

\* C19: in v2 the nodes generate_diagram draws are exactly the nodes of the node
\* sequence that are the source or the destination of a connection, or all the
\* nodes when there is no connection, each with a shape, in node-sequence order.
C19_DeclaresReferencedNodes ==
    (V2 /\ last.op = "render") =>
        LET ns == nodes[last.dtype]
            keep == DeclaredPositions(ns, connections[last.dtype])
            drawn == NodesOf(dot)
        IN /\ Len(drawn) = Cardinality(keep)
           /\ \A i \in keep :
                 LET rank == Cardinality({j \in keep : j <= i}) IN
                 /\ drawn[rank].tail = ns[i].name
                 /\ drawn[rank].shape # ""

\* C19 witness: v2 has drawn one of two nodes, the other being on no connection
C19_Witness ==
    /\ V2 /\ last.op = "render"
    /\ Len(nodes[last.dtype]) = 2 /\ connections[last.dtype] # <<>>
    /\ DeclaredPositions(nodes[last.dtype], connections[last.dtype]) = {2}
    /\ Len(NodesOf(dot)) = 1

C21_OnlyFlowsPersist ==
    [][\A t \in DiagramTypes :
         /\ (version = "flowstream" /\ last'.op = "save" /\ last'.msg = "success")
            => \A n \in SaveNames :
                  \/ /\ FlowsPath(t, n) \in DOMAIN files'
                     /\ JsonLoad(files'[FlowsPath(t, n)]) = [ok |-> TRUE, val |-> connections[t]]
                     /\ nodes' = nodes /\ connections' = connections
                  \/ ~Save(t, n)
         /\ (version = "flowstream" /\ LoadStep(t))
            => /\ nodes' = nodes
               /\ (sel.filename \in SaveNames /\ snap[t][sel.filename].saved)
                     => connections'[t] = snap[t][sel.filename].connections]_vars

\* C21 witness: flowstream.py has loaded, after a Reset, the flow saved before
\* it: the flow is back, the nodes it connects are not
C21_Witness ==
    /\ version = "flowstream" /\ last.op = "load" /\ last.msg = "success"
    /\ nodes[last.dtype] = <<>>
    /\ Len(connections[last.dtype]) = 1
    /\ snap[last.dtype][<<"a">>].saved
    /\ connections[last.dtype] = snap[last.dtype][<<"a">>].connections
    /\ Len(snap[last.dtype][<<"a">>].nodes) = 2

\* C22: in every version, Generate turns to the rendering function only when
\* the node sequence and the connection sequence are both non-empty; when one
\* of them is empty it shows the warning, draws nothing, writes no file and
\* leaves both sequences as they were.
C22_GenerateNeedsBoth ==
    [][last'.op = "generate" =>
       \A t \in DiagramTypes, f \in OutputFormats :
         \/ /\ (nodes[t] = <<>> \/ connections[t] = <<>>) =>
                  /\ last'.msg = "warning: add nodes and connections"
                  /\ dot' = NoDot /\ files' = files
            /\ (last'.msg # "warning: add nodes and connections" \/ dot' # NoDot
                   \/ files' # files)
                  => nodes[t] # <<>> /\ connections[t] # <<>>
            /\ nodes' = nodes /\ connections' = connections
         \/ ~Generate(t, f)]_vars

\* C22 witness: streamfd.py has refused to generate a diagram of two nodes and
\* no connection
C22_Witness ==
    /\ version = "streamfd" /\ last.op = "generate"
    /\ last.msg = "warning: add nodes and connections"
    /\ Len(nodes[last.dtype]) = 2 /\ connections[last.dtype] = <<>>
    /\ dot = NoDot /\ files = <<>>

\* the drawing d has no node statement for name, and has, for every connection
\* of cs from or to name, a visible edge from its source to its destination
\* with its label
DrawnDangling(d, cs, name) ==
    /\ \A i \in StatementsOf(d, "node") : d[i].tail # name
    /\ \A k \in 1..Len(cs) :
          name \in {cs[k].source, cs[k].destination} =>
             \E i \in StatementsOf(d, "edge") :
                /\ d[i].tail = cs[k].source /\ d[i].head = cs[k].destination
                /\ d[i].label = cs[k].label /\ d[i].style # "invis"

\* C23: in v2, when the node removed was an endpoint of a connection and no
\* node left has its name, generate_diagram on the lists after the removal
\* draws no node of that name and still draws the edge of every connection
\* from or to it; and whenever generate_diagram is called, that holds of every
\* endpoint name no node carries.
C23_DanglingEdgesDrawn ==
    [][\A t \in DiagramTypes :
         /\ (V2 /\ last'.op = "delete_node" /\ last'.dtype = t
                /\ Len(nodes'[t]) = Len(nodes[t]) - 1)
            => LET name == nodes[t][last'.index].name IN
               (name \in active_nodes(connections[t]) /\ name \notin NamesOf(nodes'[t]))
               => DrawnDangling(generate_diagram(nodes'[t], connections'[t]),
                                connections[t], name)
         /\ (V2 /\ last'.op = "render" /\ last'.dtype = t)
            => \A name \in active_nodes(connections[t]) \ NamesOf(nodes[t]) :
                  DrawnDangling(dot', connections[t], name)]_vars

\* C23 witness: v2 generate_diagram has drawn the lists left by the removal of
\* a node: an edge leads to a name that has no node
C23_Witness ==
    /\ V2 /\ last.op = "render" /\ steps = 1
    /\ Len(nodes[last.dtype]) = 1 /\ Len(connections[last.dtype]) >= 1
    /\ active_nodes(connections[last.dtype]) \ NamesOf(nodes[last.dtype]) # {}
    /\ Len(NodesOf(dot)) <= 1
    /\ Len(EdgesOf(dot)) >= Len(connections[last.dtype])

\* every piece of a file name of the directory fs
PiecesOfFileNames(fs) ==
    UNION {{SubSeq(f, i, j) : i \in 1..(Len(f) + 1), j \in 0..Len(f)} : f \in DOMAIN fs}

\* listed holds exactly the names n whose file {type}_data_{n}.json is in fs
ListsExactly(listed, fs, t) ==
    /\ \A n \in listed : DataPath(t, n) \in DOMAIN fs
    /\ \A n \in PiecesOfFileNames(fs) \cup SaveNames \cup {<<>>} :
          DataPath(t, n) \in DOMAIN fs => n \in listed

\* C24: in v2 the names get_available_data_files lists for a diagram type are
\* exactly the names n for which the file {type}_data_{n}.json is in the
\* working directory; a name just saved with success is listed, and the file
\* load_data opens for a listed name is the file Save under that name writes
\* (the listing is looked at in the directory at the start and after every
\* step that changes the directory).
C24_ListingMatchesFiles ==
    [][V2 =>
       \A t \in DiagramTypes :
         /\ (steps = 0) => ListsExactly(get_available_files(t), files, t)
         /\ (files' # files) => ListsExactly(get_available_files(t)', files', t)
         /\ (last'.op = "save" /\ last'.msg = "success") =>
               \A n \in SaveNames : n \in get_available_files(t)' \/ ~Save(t, n)
         /\ LoadStep(t) =>
               \/ DataPath(t, sel.filename) \notin DOMAIN files
               \/ /\ last'.msg \in {"success", "warning: could not decode"}
                  /\ snap[t][sel.filename].saved =>
                        /\ last'.msg = "success"
                        /\ nodes'[t] = snap[t][sel.filename].nodes]_vars

\* C24 witness: among a snapshot of another type, a file of the older layout
\* and a name without the suffix, v2 has listed and loaded the snapshot it
\* saved under a
C24_Witness ==
    /\ V2 /\ last.op = "load" /\ last.msg = "success" /\ last.dtype = "dfd"
    /\ Len(nodes["dfd"]) = 1 /\ snap["dfd"][<<"a">>].saved
    /\ get_available_files("dfd") = {<<"a">>, <<>>}
    /\ FlowsPath("dfd", <<"a">>) \in DOMAIN files
    /\ DataPath("erd", <<"a">>) \in DOMAIN files
    /\ DataPrefix("dfd") \o <<"a">> \in DOMAIN files

====
